---- MODULE Spec2Model ----
(***************************************************************************)
(* Model of the Robot controller of src/robot.py: the behaviour state      *)
(* machine driven by Robot.update(), the per-state policies and the        *)
(* detection predicates.  One action of the model is one statement (or one *)
(* short straight-line group of statements) of the Python code; `pc' is    *)
(* the position inside update() and `stack' holds the return positions of  *)
(* the two methods that have more than one caller or a loop inside.        *)
(* `log' is the trace of the calls made during the current tick: sensor    *)
(* reads (with the value read), actuator commands (with their arguments),  *)
(* prints and method entries.  It is emptied when a new tick starts.       *)
(* `cycle' is the same trace kept over a firefighting cycle: it starts     *)
(* with a tick that begins in FIRE_DETECTION, goes on through the tick     *)
(* that begins in EXTINGUISH and is emptied by any other tick.             *)
(***************************************************************************)
EXTENDS Integers, Sequences, FiniteSets, TLC

VARIABLES current_state, pc, stack, i, scan_result, iter, log, tick_start, cycle

vars == <<current_state, pc, stack, i, scan_result, iter, log, tick_start, cycle>>

(* ---- State constants, src/robot.py:8-12 ---- *)
WANDER == 1
WALL_FOLLOWING == 2
FIRE_DETECTION == 3
EXTINGUISH == 4
COMPLETE == 5

States == {WANDER, WALL_FOLLOWING, FIRE_DETECTION, EXTINGUISH, COMPLETE}

(* ---- pybricks Color values the colour sensor can report ---- *)
Color_NONE == 0
Color_RED == 1
Color_GREEN == 2

Colors == {Color_NONE, Color_RED, Color_GREEN}

(* ---- constants module (imported at src/robot.py:5; its values are not  *)
(*      part of the source tree, small stand-in values are used) ----      *)
WALL_FOLLOW_STEP == 2
WANDER_DISTANCE == 5
APPROACH_FLAME_STEP_DISTANCE == 3
WALL_FOLLOW_MIN_DISTANCE == 3
WALL_FOLLOW_ADJUST_ANGLE == 2
FLAME_DETECTION_THRESHOLD == 1
FAN_SPEED == 7
FAN_RUN_TIME == 9
ALARM_FREQUENCY == 11
ALARM_DURATION == 13
GOAL_COLOR == Color_RED

(* ---- literals of the code ---- *)
SCAN_STEPS == 8
SCAN_ANGLE == 45
LEFT_TURN == -90

(* ---- bounds of the model ---- *)
MaxAmbient == 2
MaxDistance == 4
MaxApproach == 2

AmbientValues == 0..MaxAmbient
DistanceValues == 0..MaxDistance
TouchValues == {0, 1}

(* ---- log entries ---- *)
Ev(op, a) == [op |-> op, a |-> a, b |-> 0]
Ev2(op, a, b) == [op |-> op, a |-> a, b |-> b]

(* print tags *)
P_STATE == 1
P_FLAME == 2
P_NOFLAME == 3
P_EXTINGUISHING == 4
P_COOLING == 5
P_TRANSITION == 6
P_COOLDOWN == 7
P_ALARM == 8

(* ---- detection predicates ---- *)

detect_flame_Geq(ambient) == ambient >= FLAME_DETECTION_THRESHOLD

\* src/robot.py:53-56
detect_flame(ambient) == ambient > FLAME_DETECTION_THRESHOLD

detect_goal_Green(color) == color = Color_GREEN

\* src/robot.py:58-60
detect_goal(color) == color = GOAL_COLOR

detect_wall_on_right_Leq(distance) == distance <= WALL_FOLLOW_MIN_DISTANCE

\* src/robot.py:49-51
detect_wall_on_right(distance) == distance < WALL_FOLLOW_MIN_DISTANCE

detect_obstacle_NoStop(touched) ==
    <<Ev("detect_obstacle", 0), Ev("touched", touched)>>

\* src/robot.py:42-47: the calls detect_obstacle() makes for a touch reading
detect_obstacle(touched) ==
    <<Ev("detect_obstacle", 0), Ev("touched", touched)>>
        \o (IF touched = 1 THEN <<Ev("stop", 0)>> ELSE <<>>)

\* src/robot.py:116-119: the calls transition_to() makes
transition_to(new_state) ==
    <<Ev("transition_to", new_state), Ev("print", P_TRANSITION)>>

\* src/robot.py:121-125: the calls raise_alarm() makes
raise_alarm ==
    <<Ev("raise_alarm", 0), Ev("print", P_ALARM),
      Ev2("beep", ALARM_FREQUENCY, ALARM_DURATION)>>

\* src/robot.py:131-148: the branch update() takes for a state: the method
\* it enters (as a log entry), the position it continues at and the position
\* the method returns to
Branch(call, at, ret) == [call |-> call, at |-> at, ret |-> ret]

Dispatch_ExtAsApproach(s) ==
    CASE s = WANDER ->
           Branch(<<Ev("initial_scan_for_flame", 0)>>, "scan", <<"upd_scan_ret">>)
      [] s = WALL_FOLLOWING ->
           Branch(<<Ev("wall_following", 0)>>, "wf", <<>>)
      [] s = FIRE_DETECTION ->
           Branch(<<Ev("approach_flame", 0)>>, "approach", <<>>)
      [] s = EXTINGUISH ->
           Branch(<<Ev("approach_flame", 0)>>, "approach", <<>>)
      [] OTHER ->
           Branch(<<>>, "idle", <<>>)

Dispatch(s) ==
    CASE s = WANDER ->
           Branch(<<Ev("initial_scan_for_flame", 0)>>, "scan", <<"upd_scan_ret">>)
      [] s = WALL_FOLLOWING ->
           Branch(<<Ev("wall_following", 0)>>, "wf", <<>>)
      [] s = FIRE_DETECTION ->
           Branch(<<Ev("approach_flame", 0)>>, "approach", <<>>)
      [] s = EXTINGUISH ->
           Branch(<<Ev("extinguish", 0)>>, "ext", <<"upd_ext_ret">>)
      [] OTHER ->
           Branch(<<>>, "idle", <<>>)

\* the trace of the cycle when update() starts a tick with trace l
cycle_begin(l) ==
    cycle' = CASE current_state = FIRE_DETECTION -> l
               [] current_state = EXTINGUISH -> cycle \o l
               [] OTHER -> <<>>

\* the trace of the cycle follows the trace of the tick
cycle_follow ==
    cycle' = IF tick_start \in {FIRE_DETECTION, EXTINGUISH}
             THEN cycle \o SubSeq(log', Len(log) + 1, Len(log'))
             ELSE cycle

\* __init__, src/robot.py:16-40
Init ==
    /\ current_state = WANDER
    /\ pc = "idle"
    /\ stack = <<>>
    /\ i = 0
    /\ scan_result = FALSE
    /\ iter = 0
    /\ log = <<>>
    /\ tick_start = 0
    /\ cycle = <<>>

\* update(), src/robot.py:127-147: print, then dispatch on current_state
update ==
    /\ pc = "idle"
    /\ tick_start' = current_state
    /\ log' = <<Ev("print", P_STATE)>> \o Dispatch(current_state).call
    /\ pc' = Dispatch(current_state).at
    /\ stack' = Dispatch(current_state).ret
    /\ i' = 0
    /\ iter' = 0
    /\ scan_result' = FALSE
    /\ UNCHANGED current_state
    /\ cycle_begin(log')

(* ---- initial_scan_for_flame(), src/robot.py:62-69 ---- *)

\* line 65-67: sample the flame predicate; on flame print and return True
scan_check ==
    /\ pc = "scan"
    /\ i < SCAN_STEPS
    /\ \E ambient \in AmbientValues :
         IF detect_flame(ambient)
         THEN /\ log' = log \o <<Ev("detect_flame", 0), Ev("ambient", ambient),
                                 Ev("print", P_FLAME)>>
              /\ scan_result' = TRUE
              /\ pc' = Head(stack)
              /\ stack' = Tail(stack)
         ELSE /\ log' = log \o <<Ev("detect_flame", 0), Ev("ambient", ambient)>>
              /\ pc' = "scan_turn"
              /\ UNCHANGED <<scan_result, stack>>
    /\ UNCHANGED <<current_state, i, iter, tick_start>>
    /\ cycle_follow

\* line 68: turn 45 degrees and go to the next iteration
scan_turn ==
    /\ pc = "scan_turn"
    /\ log' = log \o <<Ev("turn", SCAN_ANGLE)>>
    /\ i' = i + 1
    /\ pc' = "scan"
    /\ UNCHANGED <<current_state, stack, scan_result, iter, tick_start>>
    /\ cycle_follow

\* line 69: the range is exhausted, return False
scan_exhausted ==
    /\ pc = "scan"
    /\ i >= SCAN_STEPS
    /\ scan_result' = FALSE
    /\ pc' = Head(stack)
    /\ stack' = Tail(stack)
    /\ UNCHANGED <<current_state, i, iter, log, tick_start>>
    /\ cycle_follow

(* ---- update(), WANDER branch after the scan, src/robot.py:132-136 ---- *)

upd_scan_failed_NoWander ==
    /\ pc = "upd_scan_ret"
    /\ ~scan_result
    /\ log' = log \o <<Ev("print", P_NOFLAME)>>
    /\ pc' = "idle"
    /\ UNCHANGED <<current_state, stack, i, scan_result, iter, tick_start>>
    /\ cycle_follow

\* line 132-134: no flame, print and call wander()
upd_scan_failed ==
    /\ pc = "upd_scan_ret"
    /\ ~scan_result
    /\ log' = log \o <<Ev("print", P_NOFLAME), Ev("wander", 0)>>
    /\ pc' = "wander"
    /\ UNCHANGED <<current_state, stack, i, scan_result, iter, tick_start>>
    /\ cycle_follow

upd_scan_found_Inverted ==
    /\ pc = "upd_scan_ret"
    /\ scan_result
    /\ log' = log \o <<Ev("print", P_NOFLAME), Ev("wander", 0)>>
    /\ pc' = "wander"
    /\ UNCHANGED <<current_state, stack, i, scan_result, iter, tick_start>>
    /\ cycle_follow

upd_scan_found_WithAlarm ==
    /\ pc = "upd_scan_ret"
    /\ scan_result
    /\ current_state' = FIRE_DETECTION
    /\ log' = log \o raise_alarm \o transition_to(FIRE_DETECTION)
    /\ pc' = "idle"
    /\ UNCHANGED <<stack, i, scan_result, iter, tick_start>>
    /\ cycle_follow

\* line 135-136: flame found, transition_to(FIRE_DETECTION)
upd_scan_found ==
    /\ pc = "upd_scan_ret"
    /\ scan_result
    /\ current_state' = FIRE_DETECTION
    /\ log' = log \o transition_to(FIRE_DETECTION)
    /\ pc' = "idle"
    /\ UNCHANGED <<stack, i, scan_result, iter, tick_start>>
    /\ cycle_follow

(* ---- wander(), src/robot.py:82-89 ---- *)

\* line 84: detect_obstacle()
wander_detect ==
    /\ pc = "wander"
    /\ \E touched \in TouchValues :
         /\ log' = log \o detect_obstacle(touched)
         /\ pc' = IF touched = 1 THEN "wander_back" ELSE "wander_fwd"
    /\ UNCHANGED <<current_state, stack, i, scan_result, iter, tick_start>>
    /\ cycle_follow

\* line 85
wander_back ==
    /\ pc = "wander_back"
    /\ log' = log \o <<Ev("straight", -WALL_FOLLOW_STEP)>>
    /\ pc' = "wander_turn"
    /\ UNCHANGED <<current_state, stack, i, scan_result, iter, tick_start>>
    /\ cycle_follow

\* line 86
wander_turn ==
    /\ pc = "wander_turn"
    /\ log' = log \o <<Ev("turn", LEFT_TURN)>>
    /\ pc' = "wander_trans"
    /\ UNCHANGED <<current_state, stack, i, scan_result, iter, tick_start>>
    /\ cycle_follow

\* line 87: transition_to(WALL_FOLLOWING); wander() and update() return
wander_trans ==
    /\ pc = "wander_trans"
    /\ current_state' = WALL_FOLLOWING
    /\ log' = log \o transition_to(WALL_FOLLOWING)
    /\ pc' = "idle"
    /\ UNCHANGED <<stack, i, scan_result, iter, tick_start>>
    /\ cycle_follow

\* line 89: no obstacle, advance; wander() and update() return
wander_fwd ==
    /\ pc = "wander_fwd"
    /\ log' = log \o <<Ev("straight", WANDER_DISTANCE)>>
    /\ pc' = "idle"
    /\ UNCHANGED <<current_state, stack, i, scan_result, iter, tick_start>>
    /\ cycle_follow

(* ---- wall_following(), src/robot.py:91-102 ---- *)

\* line 93: detect_obstacle()
wf_detect ==
    /\ pc = "wf"
    /\ \E touched \in TouchValues :
         /\ log' = log \o detect_obstacle(touched)
         /\ pc' = IF touched = 1 THEN "wf_back" ELSE "wf_wall"
    /\ UNCHANGED <<current_state, stack, i, scan_result, iter, tick_start>>
    /\ cycle_follow

\* line 94
wf_back ==
    /\ pc = "wf_back"
    /\ log' = log \o <<Ev("straight", -WALL_FOLLOW_STEP)>>
    /\ pc' = "wf_obst_turn"
    /\ UNCHANGED <<current_state, stack, i, scan_result, iter, tick_start>>
    /\ cycle_follow

\* line 95
wf_obst_turn ==
    /\ pc = "wf_obst_turn"
    /\ log' = log \o <<Ev("turn", LEFT_TURN)>>
    /\ pc' = "upd_wf_goal"
    /\ UNCHANGED <<current_state, stack, i, scan_result, iter, tick_start>>
    /\ cycle_follow

\* line 96: elif not detect_wall_on_right()
wf_wall ==
    /\ pc = "wf_wall"
    /\ \E distance \in DistanceValues :
         /\ log' = log \o <<Ev("detect_wall_on_right", 0), Ev("distance", distance)>>
         /\ pc' = IF ~detect_wall_on_right(distance) THEN "wf_nowall_turn"
                                                      ELSE "wf_steer"
    /\ UNCHANGED <<current_state, stack, i, scan_result, iter, tick_start>>
    /\ cycle_follow

wf_nowall_turn_ToWander ==
    /\ pc = "wf_nowall_turn"
    /\ current_state' = WANDER
    /\ log' = log \o <<Ev("turn", LEFT_TURN)>> \o transition_to(WANDER)
    /\ pc' = "upd_wf_goal"
    /\ UNCHANGED <<stack, i, scan_result, iter, tick_start>>
    /\ cycle_follow

\* line 97
wf_nowall_turn ==
    /\ pc = "wf_nowall_turn"
    /\ log' = log \o <<Ev("turn", LEFT_TURN)>>
    /\ pc' = "upd_wf_goal"
    /\ UNCHANGED <<current_state, stack, i, scan_result, iter, tick_start>>
    /\ cycle_follow

angle_adjustment_Reversed(distance) ==
    (distance - WALL_FOLLOW_MIN_DISTANCE) * WALL_FOLLOW_ADJUST_ANGLE

\* line 99-100: the proportional adjustment for a distance reading
angle_adjustment(distance) ==
    (WALL_FOLLOW_MIN_DISTANCE - distance) * WALL_FOLLOW_ADJUST_ANGLE

\* line 99-101: the side sensor is read again, then the turn is issued
wf_steer ==
    /\ pc = "wf_steer"
    /\ \E distance \in DistanceValues :
         log' = log \o <<Ev("distance", distance),
                         Ev("turn", angle_adjustment(distance))>>
    /\ pc' = "wf_step"
    /\ UNCHANGED <<current_state, stack, i, scan_result, iter, tick_start>>
    /\ cycle_follow

\* line 102
wf_step ==
    /\ pc = "wf_step"
    /\ log' = log \o <<Ev("straight", WALL_FOLLOW_STEP)>>
    /\ pc' = "upd_wf_goal"
    /\ UNCHANGED <<current_state, stack, i, scan_result, iter, tick_start>>
    /\ cycle_follow

upd_wf_goal_NoTransition ==
    /\ pc = "upd_wf_goal"
    /\ \E color \in Colors :
         log' = log \o <<Ev("detect_goal", 0), Ev("color", color)>>
    /\ pc' = "idle"
    /\ UNCHANGED <<current_state, stack, i, scan_result, iter, tick_start>>
    /\ cycle_follow

upd_wf_goal_ToExtinguish ==
    /\ pc = "upd_wf_goal"
    /\ \E color \in Colors :
         IF detect_goal(color)
         THEN /\ current_state' = EXTINGUISH
              /\ log' = log \o <<Ev("detect_goal", 0), Ev("color", color)>>
                            \o transition_to(EXTINGUISH)
         ELSE /\ log' = log \o <<Ev("detect_goal", 0), Ev("color", color)>>
              /\ UNCHANGED current_state
    /\ pc' = "idle"
    /\ UNCHANGED <<stack, i, scan_result, iter, tick_start>>
    /\ cycle_follow

\* update(), line 140-141: if detect_goal(): transition_to(FIRE_DETECTION)
upd_wf_goal ==
    /\ pc = "upd_wf_goal"
    /\ \E color \in Colors :
         IF detect_goal(color)
         THEN /\ current_state' = FIRE_DETECTION
              /\ log' = log \o <<Ev("detect_goal", 0), Ev("color", color)>>
                            \o transition_to(FIRE_DETECTION)
         ELSE /\ log' = log \o <<Ev("detect_goal", 0), Ev("color", color)>>
              /\ UNCHANGED current_state
    /\ pc' = "idle"
    /\ UNCHANGED <<stack, i, scan_result, iter, tick_start>>
    /\ cycle_follow

(* ---- approach_flame(), src/robot.py:71-80 ---- *)

\* The loop of approach_flame() has no bound.  The log keeps the first
\* MaxApproach iterations; the loop itself goes on, unrecorded, after them.
Recorded(entries) == IF iter < MaxApproach THEN log \o entries ELSE log

approach_goal_NoExtinguish ==
    /\ pc = "approach"
    /\ \E color \in Colors :
         /\ detect_goal(color)
         /\ log' = log \o <<Ev("detect_goal", 0), Ev("color", color)>>
    /\ pc' = "upd_fd_ret"
    /\ UNCHANGED <<current_state, stack, i, scan_result, iter, tick_start>>
    /\ cycle_follow

\* line 73 and 80: the while condition finds the goal; call extinguish()
approach_goal ==
    /\ pc = "approach"
    /\ \E color \in Colors :
         /\ detect_goal(color)
         /\ log' = log \o <<Ev("detect_goal", 0), Ev("color", color),
                            Ev("extinguish", 0)>>
    /\ pc' = "ext"
    /\ stack' = <<"upd_fd_ret">> \o stack
    /\ UNCHANGED <<current_state, i, scan_result, iter, tick_start>>
    /\ cycle_follow

\* line 73: the while condition finds no goal; enter the loop body
approach_nogoal ==
    /\ pc = "approach"
    /\ \E color \in Colors :
         /\ ~detect_goal(color)
         /\ log' = Recorded(<<Ev("detect_goal", 0), Ev("color", color)>>)
    /\ pc' = "approach_touch"
    /\ UNCHANGED <<current_state, stack, i, scan_result, iter, tick_start>>
    /\ cycle_follow

approach_touch_ViaDetectObstacle ==
    /\ pc = "approach_touch"
    /\ \E touched \in TouchValues :
         /\ log' = Recorded(detect_obstacle(touched))
         /\ pc' = IF touched = 1 THEN "approach_back" ELSE "approach_fwd"
    /\ UNCHANGED <<current_state, stack, i, scan_result, iter, tick_start>>
    /\ cycle_follow

\* line 74: the touch sensor is read directly (no stop)
approach_touch ==
    /\ pc = "approach_touch"
    /\ \E touched \in TouchValues :
         /\ log' = Recorded(<<Ev("touched", touched)>>)
         /\ pc' = IF touched = 1 THEN "approach_back" ELSE "approach_fwd"
    /\ UNCHANGED <<current_state, stack, i, scan_result, iter, tick_start>>
    /\ cycle_follow

\* line 75
approach_back ==
    /\ pc = "approach_back"
    /\ log' = Recorded(<<Ev("straight", -WALL_FOLLOW_STEP)>>)
    /\ pc' = "approach_turn"
    /\ UNCHANGED <<current_state, stack, i, scan_result, iter, tick_start>>
    /\ cycle_follow

\* line 76
approach_turn ==
    /\ pc = "approach_turn"
    /\ log' = Recorded(<<Ev("turn", LEFT_TURN)>>)
    /\ iter' = IF iter < MaxApproach THEN iter + 1 ELSE iter
    /\ pc' = "approach"
    /\ UNCHANGED <<current_state, stack, i, scan_result, tick_start>>
    /\ cycle_follow

\* line 78-79
approach_fwd ==
    /\ pc = "approach_fwd"
    /\ log' = Recorded(<<Ev("straight", APPROACH_FLAME_STEP_DISTANCE)>>)
    /\ iter' = IF iter < MaxApproach THEN iter + 1 ELSE iter
    /\ pc' = "approach"
    /\ UNCHANGED <<current_state, stack, i, scan_result, tick_start>>
    /\ cycle_follow

(* ---- extinguish(), src/robot.py:108-114 ---- *)

ext_fan_ArgsSwapped ==
    /\ pc = "ext"
    /\ log' = log \o <<Ev("print", P_EXTINGUISHING),
                       Ev2("run_time", FAN_RUN_TIME, FAN_SPEED)>>
    /\ pc' = "ext_complete"
    /\ UNCHANGED <<current_state, stack, i, scan_result, iter, tick_start>>
    /\ cycle_follow

\* line 110-111: print and run the fan
ext_fan ==
    /\ pc = "ext"
    /\ log' = log \o <<Ev("print", P_EXTINGUISHING),
                       Ev2("run_time", FAN_SPEED, FAN_RUN_TIME)>>
    /\ pc' = "ext_complete"
    /\ UNCHANGED <<current_state, stack, i, scan_result, iter, tick_start>>
    /\ cycle_follow

\* line 112-114: current_state = COMPLETE, print, light on; return
ext_complete ==
    /\ pc = "ext_complete"
    /\ current_state' = COMPLETE
    /\ log' = log \o <<Ev("print", P_COOLING), Ev("light_on", Color_GREEN)>>
    /\ pc' = Head(stack)
    /\ stack' = Tail(stack)
    /\ UNCHANGED <<i, scan_result, iter, tick_start>>
    /\ cycle_follow

(* ---- update(), the statements after the policy returns ---- *)

upd_fd_trans_ToWander ==
    /\ pc = "upd_fd_ret"
    /\ current_state' = WANDER
    /\ log' = log \o transition_to(WANDER)
    /\ pc' = "idle"
    /\ UNCHANGED <<stack, i, scan_result, iter, tick_start>>
    /\ cycle_follow

upd_fd_trans_Missing ==
    /\ pc = "upd_fd_ret"
    /\ pc' = "idle"
    /\ UNCHANGED <<current_state, log, stack, i, scan_result, iter, tick_start>>
    /\ cycle_follow

\* line 145: transition_to(EXTINGUISH)
upd_fd_trans ==
    /\ pc = "upd_fd_ret"
    /\ current_state' = EXTINGUISH
    /\ log' = log \o transition_to(EXTINGUISH)
    /\ pc' = "idle"
    /\ UNCHANGED <<stack, i, scan_result, iter, tick_start>>
    /\ cycle_follow

upd_ext_trans_Missing ==
    /\ pc = "upd_ext_ret"
    /\ log' = log \o <<Ev("print", P_COOLDOWN)>>
    /\ pc' = "idle"
    /\ UNCHANGED <<current_state, stack, i, scan_result, iter, tick_start>>
    /\ cycle_follow

\* line 149-150: print, transition_to(WANDER)
upd_ext_trans ==
    /\ pc = "upd_ext_ret"
    /\ current_state' = WANDER
    /\ log' = log \o <<Ev("print", P_COOLDOWN)>> \o transition_to(WANDER)
    /\ pc' = "idle"
    /\ UNCHANGED <<stack, i, scan_result, iter, tick_start>>
    /\ cycle_follow

Next ==
    \/ update
    \/ scan_check \/ scan_turn \/ scan_exhausted
    \/ upd_scan_failed \/ upd_scan_found
    \/ wander_detect \/ wander_back \/ wander_turn \/ wander_trans \/ wander_fwd
    \/ wf_detect \/ wf_back \/ wf_obst_turn \/ wf_wall \/ wf_nowall_turn
    \/ wf_steer \/ wf_step \/ upd_wf_goal
    \/ approach_goal \/ approach_nogoal
    \/ approach_touch \/ approach_back \/ approach_turn \/ approach_fwd
    \/ ext_fan \/ ext_complete
    \/ upd_fd_trans \/ upd_ext_trans

\* The control loop: a fresh Robot, update() called again and again
Spec == Init /\ [][Next]_vars

\* The control loop keeps running: every call made returns and update() is
\* called again
SpecLoop == Spec /\ WF_vars(Next)

\* The control loop under the assumption that the goal tile is eventually
\* sensed: a goal sample that is possible again and again is eventually taken
SpecGoalFair == Spec /\ WF_vars(Next) /\ SF_vars(approach_goal)

\* update() applied to a Robot in any of the five states
InitAny ==
    /\ current_state \in States
    /\ pc = "idle"
    /\ stack = <<>>
    /\ i = 0
    /\ scan_result = FALSE
    /\ iter = 0
    /\ log = <<>>
    /\ tick_start = 0
    /\ cycle = <<>>

SpecAny == InitAny /\ [][Next]_vars

(* ---- The methods as an outside caller may invoke them, one at a time, ---- *)
(* ---- between two ticks.  The log then holds the calls of that one     ---- *)
(* ---- invocation, closed by the value it returned (1 for True).        ---- *)

Returned(value) == <<Ev("return", IF value THEN 1 ELSE 0)>>

\* detect_obstacle(), src/robot.py:42-47
call_detect_obstacle ==
    /\ pc = "idle"
    /\ \E touched \in TouchValues :
         log' = detect_obstacle(touched) \o Returned(touched = 1)
    /\ tick_start' = 0
    /\ cycle' = <<>>
    /\ UNCHANGED <<current_state, pc, stack, i, scan_result, iter>>

\* detect_wall_on_right(), src/robot.py:49-51
call_detect_wall_on_right ==
    /\ pc = "idle"
    /\ \E distance \in DistanceValues :
         log' = <<Ev("detect_wall_on_right", 0), Ev("distance", distance)>>
                   \o Returned(detect_wall_on_right(distance))
    /\ tick_start' = 0
    /\ cycle' = <<>>
    /\ UNCHANGED <<current_state, pc, stack, i, scan_result, iter>>

\* detect_flame(), src/robot.py:53-56
call_detect_flame ==
    /\ pc = "idle"
    /\ \E ambient \in AmbientValues :
         log' = <<Ev("detect_flame", 0), Ev("ambient", ambient)>>
                   \o Returned(detect_flame(ambient))
    /\ tick_start' = 0
    /\ cycle' = <<>>
    /\ UNCHANGED <<current_state, pc, stack, i, scan_result, iter>>

call_detect_goal_Transitions ==
    /\ pc = "idle"
    /\ \E color \in Colors :
         /\ log' = <<Ev("detect_goal", 0), Ev("color", color)>>
                      \o Returned(detect_goal(color))
         /\ current_state' = IF detect_goal(color) THEN FIRE_DETECTION
                                                   ELSE current_state
    /\ tick_start' = 0
    /\ cycle' = <<>>
    /\ UNCHANGED <<pc, stack, i, scan_result, iter>>

\* detect_goal(), src/robot.py:58-60
call_detect_goal ==
    /\ pc = "idle"
    /\ \E color \in Colors :
         log' = <<Ev("detect_goal", 0), Ev("color", color)>>
                   \o Returned(detect_goal(color))
    /\ tick_start' = 0
    /\ cycle' = <<>>
    /\ UNCHANGED <<current_state, pc, stack, i, scan_result, iter>>

\* raise_alarm(), src/robot.py:121-125
call_raise_alarm ==
    /\ pc = "idle"
    /\ log' = raise_alarm
    /\ tick_start' = 0
    /\ cycle' = <<>>
    /\ UNCHANGED <<current_state, pc, stack, i, scan_result, iter>>

NextApi ==
    \/ Next
    \/ call_detect_obstacle \/ call_detect_wall_on_right
    \/ call_detect_flame \/ call_detect_goal
    \/ call_raise_alarm

\* a Robot in any state, used through update() and through the methods above
SpecApi == InitAny /\ [][NextApi]_vars

TypeOK ==
    /\ current_state \in States
    /\ i \in 0..SCAN_STEPS
    /\ iter \in 0..MaxApproach
    /\ scan_result \in BOOLEAN
    /\ tick_start \in States \cup {0}

(* ---- Reading the log ---- *)

PolicyOps == {"initial_scan_for_flame", "wander", "wall_following",
              "approach_flame", "extinguish", "fire_detection", "raise_alarm"}
SensorOps == {"touched", "ambient", "distance", "color"}
ActuatorOps == {"stop", "straight", "turn", "run_time", "light_on", "beep"}
DriveOps == {"stop", "straight", "turn"}

Ops(l) == {l[j].op : j \in 1..Len(l)}
Only(l, ops) == SelectSeq(l, LAMBDA e : e.op \in ops)
Count(l, op) == Len(Only(l, {op}))
Called == Ops(log) \cap PolicyOps

\* a tick has run to its end
TickDone == pc = "idle" /\ tick_start # 0

\* C1: one update() with current_state = S enters exactly the policy of S:
\* WANDER the flame scan (and wander() exactly when the scan fails),
\* WALL_FOLLOWING wall_following(), FIRE_DETECTION approach_flame() (with the
\* extinguish() nested in it), EXTINGUISH extinguish(), each at most once;
\* COMPLETE enters no policy, reads no sensor, commands no actuator and
\* leaves current_state unchanged.
C1_DispatchExact ==
    tick_start # 0 =>
      /\ \A p \in PolicyOps : Count(log, p) <= 1
      /\ tick_start = WANDER =>
           /\ Called \subseteq {"initial_scan_for_flame", "wander"}
           /\ log[2].op = "initial_scan_for_flame"
           /\ "wander" \in Called =>
                \A j \in 1..Len(log) : log[j].op = "ambient" =>
                     ~(log[j].a > FLAME_DETECTION_THRESHOLD)
           /\ TickDone =>
                ("wander" \in Called <=>
                   \A j \in 1..Len(log) : log[j].op = "ambient" =>
                        ~(log[j].a > FLAME_DETECTION_THRESHOLD))
      /\ tick_start = WALL_FOLLOWING =>
           /\ Called = {"wall_following"}
           /\ log[2].op = "wall_following"
      /\ tick_start = FIRE_DETECTION =>
           /\ log[2].op = "approach_flame"
           /\ Called \subseteq {"approach_flame", "extinguish"}
           /\ TickDone => Called = {"approach_flame", "extinguish"}
      /\ tick_start = EXTINGUISH =>
           /\ Called = {"extinguish"}
           /\ log[2].op = "extinguish"
      /\ tick_start = COMPLETE =>
           /\ Called = {}
           /\ Ops(log) \cap (SensorOps \cup ActuatorOps) = {}
           /\ Ops(log) = {"print"}
           /\ current_state = COMPLETE
           /\ pc = "idle"

C1_Witness ==
    /\ TickDone
    /\ tick_start = COMPLETE
    /\ current_state = COMPLETE
    /\ Len(log) = 1

IsFlame(e) == e.op = "ambient" /\ e.a > FLAME_DETECTION_THRESHOLD
IsGoal(e) == e.op = "color" /\ e.a = Color_RED
IsPrefix(l, m) == Len(l) <= Len(m) /\ SubSeq(m, 1, Len(l)) = l
FirstIndex(l, op) == CHOOSE j \in 1..Len(l) :
                        l[j].op = op /\ \A k \in 1..(j - 1) : l[k].op # op
From(l, op) == SubSeq(l, FirstIndex(l, op), Len(l))
ScanPcs == {"scan", "scan_turn", "upd_scan_ret"}

\* C2: one initial_scan_for_flame() issues at most 8 turns, each of 45
\* degrees, every turn directly after a flame sample that reported no flame;
\* a sample that reports flame ends the scan with True and no further turn;
\* False is returned only after 8 flameless samples and 8 turns.
C2_ScanBounded ==
    (tick_start = WANDER /\ pc \in ScanPcs) =>
      LET reads == Only(log, {"ambient"})
          turns == Only(log, {"turn"})
      IN /\ Len(turns) <= 8
         /\ \A j \in 1..Len(turns) : turns[j].a = 45
         /\ Ops(log) \cap ActuatorOps \subseteq {"turn"}
         /\ Ops(log) \cap SensorOps \subseteq {"ambient"}
         /\ \A j \in 1..Len(log) : log[j].op = "turn" =>
               /\ j > 1
               /\ log[j - 1].op = "ambient"
               /\ ~IsFlame(log[j - 1])
         /\ \A j \in 1..Len(log) : IsFlame(log[j]) =>
               /\ pc = "upd_scan_ret"
               /\ scan_result
               /\ \A k \in (j + 1)..Len(log) : log[k].op \notin {"turn", "ambient"}
         /\ (pc = "upd_scan_ret" /\ scan_result) =>
               /\ Len(reads) \in 1..8
               /\ IsFlame(reads[Len(reads)])
               /\ Len(turns) = Len(reads) - 1
         /\ (pc = "upd_scan_ret" /\ ~scan_result) =>
               /\ Len(reads) = 8
               /\ Len(turns) = 8
               /\ \A j \in 1..8 : ~IsFlame(reads[j])

C2_Witness ==
    /\ tick_start = WANDER
    /\ pc = "upd_scan_ret"
    /\ ~scan_result
    /\ Count(log, "turn") = 8
    /\ Count(log, "ambient") = 8

\* C3: a tick started in WANDER in which the k-th flame sample is the first
\* to report flame issues exactly k-1 turns, no straight command and no touch
\* read, and ends in FIRE_DETECTION.
C3_FlameAtKth ==
    (TickDone /\ tick_start = WANDER /\ \E j \in 1..Len(log) : IsFlame(log[j])) =>
      LET reads == Only(log, {"ambient"})
          k == CHOOSE n \in 1..Len(reads) :
                  IsFlame(reads[n]) /\ \A m \in 1..(n - 1) : ~IsFlame(reads[m])
      IN /\ k \in 1..8
         /\ Len(reads) = k
         /\ Count(log, "turn") = k - 1
         /\ "straight" \notin Ops(log)
         /\ "touched" \notin Ops(log)
         /\ "wander" \notin Ops(log)
         /\ current_state = FIRE_DETECTION

C3_Witness ==
    /\ TickDone
    /\ tick_start = WANDER
    /\ Count(log, "ambient") = 3
    /\ IsFlame(Only(log, {"ambient"})[3])
    /\ Count(log, "turn") = 2
    /\ current_state = FIRE_DETECTION

WanderPcs == {"wander", "wander_back", "wander_turn", "wander_trans", "wander_fwd"}

WanderOnContact ==
    <<Ev("wander", 0), Ev("detect_obstacle", 0), Ev("touched", 1), Ev("stop", 0),
      Ev("straight", -WALL_FOLLOW_STEP), Ev("turn", -90),
      Ev("transition_to", WALL_FOLLOWING), Ev("print", P_TRANSITION)>>

\* C4: when wander() finds the touch sensor pressed, what it does is exactly
\* stop, straight(-WALL_FOLLOW_STEP), turn(-90), transition_to(WALL_FOLLOWING)
\* in this order; the state is WANDER until that transition and
\* WALL_FOLLOWING after it, and no forward WANDER_DISTANCE command is issued.
C4_WanderContact ==
    /\ pc \in WanderPcs => current_state = WANDER
    /\ (tick_start = WANDER /\ \E j \in 1..Len(log) :
                                  log[j].op = "touched" /\ log[j].a = 1) =>
         /\ IsPrefix(From(log, "wander"), WanderOnContact)
         /\ \A j \in 1..Len(log) :
               log[j].op = "straight" => log[j].a # WANDER_DISTANCE
         /\ TickDone =>
               /\ From(log, "wander") = WanderOnContact
               /\ current_state = WALL_FOLLOWING
         /\ ~TickDone => current_state = WANDER

C4_Witness ==
    /\ TickDone
    /\ tick_start = WANDER
    /\ "wander" \in Ops(log)
    /\ From(log, "wander") = WanderOnContact
    /\ current_state = WALL_FOLLOWING

\* C5: when the first goal sample of approach_flame() reports the goal
\* colour, extinguish() is entered right after it: no straight, turn or stop
\* command and no touch read is made, and the first actuator command is the
\* fan run.
C5_GoalAtFirstCheck ==
    (tick_start = FIRE_DETECTION /\ Len(log) >= 4 /\ IsGoal(log[4])) =>
      LET acts == Only(log, ActuatorOps)
      IN /\ log[2].op = "approach_flame"
         /\ log[3].op = "detect_goal"
         /\ Ops(log) \cap (DriveOps \cup {"touched"}) = {}
         /\ Len(log) >= 5 => log[5].op = "extinguish"
         /\ Len(acts) >= 1 =>
               acts[1] = Ev2("run_time", FAN_SPEED, FAN_RUN_TIME)
         /\ TickDone => Len(acts) >= 1

C5_Witness ==
    /\ tick_start = FIRE_DETECTION
    /\ Len(log) >= 7
    /\ IsGoal(log[4])
    /\ log[5].op = "extinguish"
    /\ log[7].op = "run_time"

ApproachPcs == {"approach", "approach_touch", "approach_back", "approach_turn",
                "approach_fwd"}

\* C6: a tick that starts in FIRE_DETECTION and returns ends in EXTINGUISH;
\* the state is FIRE_DETECTION during the approach, COMPLETE when the nested
\* extinguish() has returned, and the closing transition_to(EXTINGUISH)
\* overwrites it.
C6_FireDetectionEndsInExtinguish ==
    tick_start = FIRE_DETECTION =>
      /\ TickDone =>
           /\ current_state = EXTINGUISH
           /\ "extinguish" \in Ops(log)
           /\ log[Len(log) - 1] = Ev("transition_to", EXTINGUISH)
      /\ pc = "upd_fd_ret" => current_state = COMPLETE
      /\ pc \in ApproachPcs \cup {"ext", "ext_complete"} =>
           current_state = FIRE_DETECTION

C6_Witness ==
    /\ TickDone
    /\ tick_start = FIRE_DETECTION
    /\ current_state = EXTINGUISH
    /\ Count(log, "run_time") = 1

ExtinguishTick ==
    <<Ev("print", P_STATE), Ev("extinguish", 0), Ev("print", P_EXTINGUISHING),
      Ev2("run_time", FAN_SPEED, FAN_RUN_TIME), Ev("print", P_COOLING),
      Ev("light_on", Color_GREEN), Ev("print", P_COOLDOWN),
      Ev("transition_to", WANDER), Ev("print", P_TRANSITION)>>

\* C7: a tick that starts in EXTINGUISH runs the fan once at FAN_SPEED for
\* FAN_RUN_TIME, issues no drive command, reads no sensor and ends in WANDER.
C7_ExtinguishTick ==
    tick_start = EXTINGUISH =>
      /\ IsPrefix(log, ExtinguishTick)
      /\ Ops(log) \cap SensorOps = {}
      /\ Ops(log) \cap DriveOps = {}
      /\ TickDone =>
           /\ log = ExtinguishTick
           /\ Count(log, "run_time") = 1
           /\ current_state = WANDER

C7_Witness ==
    /\ TickDone
    /\ tick_start = EXTINGUISH
    /\ Count(log, "run_time") = 1
    /\ current_state = WANDER

\* C8: a tick that starts in WALL_FOLLOWING runs wall_following(), then
\* samples the goal predicate once, after every motion command and sensor
\* read of the policy; it ends in FIRE_DETECTION iff that sample is the goal
\* colour and in WALL_FOLLOWING otherwise.  No flame reading is taken.
C8_WallFollowingTick ==
    tick_start = WALL_FOLLOWING =>
      /\ log[2].op = "wall_following"
      /\ "ambient" \notin Ops(log)
      /\ Count(log, "color") <= 1
      /\ ~TickDone => current_state = WALL_FOLLOWING /\ Count(log, "color") = 0
      /\ TickDone =>
           /\ Count(log, "color") = 1
           /\ Ops(log) \cap DriveOps # {}
           /\ \A j, k \in 1..Len(log) :
                 (log[j].op = "color" /\
                  log[k].op \in DriveOps \cup {"touched", "distance"}) => k < j
           /\ current_state = FIRE_DETECTION <=> IsGoal(Only(log, {"color"})[1])
           /\ current_state \in {FIRE_DETECTION, WALL_FOLLOWING}

C8_Witness ==
    /\ TickDone
    /\ tick_start = WALL_FOLLOWING
    /\ IsGoal(Only(log, {"color"})[1])
    /\ current_state = FIRE_DETECTION

\* the rows of the transition table, as (state, next state)
TableEdges ==
    {<<WANDER, FIRE_DETECTION>>, <<WANDER, WANDER>>,
     <<WALL_FOLLOWING, WALL_FOLLOWING>>, <<WALL_FOLLOWING, FIRE_DETECTION>>,
     <<FIRE_DETECTION, EXTINGUISH>>, <<EXTINGUISH, WANDER>>}

\* C9 as stated: every change of current_state from one tick boundary to the
\* next is a row of the transition table.
C9_Original ==
    (TickDone /\ current_state # tick_start) =>
        <<tick_start, current_state>> \in TableEdges

\* C9 amended: every change of current_state from one tick boundary to the
\* next is a row of the transition table or the WANDER -> WALL_FOLLOWING
\* transition wander() makes on contact; the only change that leads back to
\* an earlier state of the sequence WANDER, WALL_FOLLOWING, FIRE_DETECTION,
\* EXTINGUISH is the EXTINGUISH -> WANDER loop-back.
C9_SequentialTransitions ==
    (TickDone /\ current_state # tick_start) =>
      /\ <<tick_start, current_state>> \in
             TableEdges \cup {<<WANDER, WALL_FOLLOWING>>}
      /\ current_state < tick_start =>
             (tick_start = EXTINGUISH /\ current_state = WANDER)

C9_Witness ==
    /\ TickDone
    /\ tick_start = WANDER
    /\ current_state = WALL_FOLLOWING

\* C10: at every tick boundary current_state is WANDER, WALL_FOLLOWING,
\* FIRE_DETECTION or EXTINGUISH, never COMPLETE, so the next update()
\* dispatches a policy; COMPLETE is held only inside a tick, from the
\* assignment in extinguish() to the transition_to() that follows it.
C10_NeverCompleteAtBoundary ==
    /\ pc = "idle" =>
         /\ current_state \in {WANDER, WALL_FOLLOWING, FIRE_DETECTION, EXTINGUISH}
         /\ Dispatch(current_state).call # <<>>
    /\ current_state = COMPLETE <=> pc \in {"upd_fd_ret", "upd_ext_ret"}

C10_Witness ==
    /\ TickDone
    /\ tick_start = EXTINGUISH
    /\ "extinguish" \in Ops(log)
    /\ current_state = WANDER

DetectOps == {"detect_obstacle", "detect_wall_on_right", "detect_flame",
              "detect_goal"}

\* a step that is one invocation of a detection predicate
IsDetectCall ==
    /\ pc = "idle"
    /\ pc' = "idle"
    /\ Len(log') > 0
    /\ log'[1].op \in DetectOps

\* C11: an invocation of detect_obstacle(), detect_wall_on_right(),
\* detect_flame() or detect_goal(), in any state and for any sensor value,
\* leaves current_state unchanged, enters no policy and no transition, and
\* commands no actuator, except that detect_obstacle() issues one stop()
\* exactly when it returns True; each returns the comparison of its reading.
C11_DetectionLeavesState ==
    [][IsDetectCall =>
         LET l == log'
             ret == l[Len(l)]
         IN /\ current_state' = current_state
            /\ ret.op = "return"
            /\ ret.a \in {0, 1}
            /\ Len(l) >= 3
            /\ Ops(l) \cap (PolicyOps \cup {"transition_to", "print"}) = {}
            /\ Ops(l) \cap ActuatorOps =
                  (IF l[1].op = "detect_obstacle" /\ ret.a = 1 THEN {"stop"}
                                                              ELSE {})
            /\ Count(l, "stop") <= 1
            /\ Count(l, "touched") + Count(l, "distance")
                 + Count(l, "ambient") + Count(l, "color") = 1
            /\ l[1].op = "detect_obstacle" =>
                  (l[2].op = "touched" /\ (ret.a = 1 <=> l[2].a = 1))
            /\ l[1].op = "detect_wall_on_right" =>
                  (l[2].op = "distance" /\
                   (ret.a = 1 <=> l[2].a < WALL_FOLLOW_MIN_DISTANCE))
            /\ l[1].op = "detect_flame" =>
                  (l[2].op = "ambient" /\
                   (ret.a = 1 <=> l[2].a > FLAME_DETECTION_THRESHOLD))
            /\ l[1].op = "detect_goal" =>
                  (l[2].op = "color" /\ (ret.a = 1 <=> l[2].a = Color_RED))
    ]_vars

C11_Witness ==
    /\ pc = "idle"
    /\ current_state = FIRE_DETECTION
    /\ log = <<Ev("detect_obstacle", 0), Ev("touched", 1), Ev("stop", 0),
               Ev("return", 1)>>

\* the steering of wall_following() in the log: the second distance reading
\* (the first is the one of detect_wall_on_right()) directly followed by the
\* turn computed from it
IsSteer(l, j) ==
    /\ j >= 2
    /\ j + 1 <= Len(l)
    /\ l[j - 1].op = "distance"
    /\ l[j].op = "distance"
    /\ l[j + 1].op = "turn"

\* C12: the turn of the steering branch is
\* (WALL_FOLLOW_MIN_DISTANCE - d) * WALL_FOLLOW_ADJUST_ANGLE for the reading
\* d used; against any other reading e below the threshold, the smaller
\* distance gets the strictly greater adjustment and the two adjustments
\* differ by the distance difference times the gain.
C12_ProportionalTurn ==
    tick_start = WALL_FOLLOWING =>
      \A j \in 1..Len(log) : IsSteer(log, j) =>
        LET d == log[j].a
            turn == log[j + 1].a
        IN /\ turn = (WALL_FOLLOW_MIN_DISTANCE - d) * WALL_FOLLOW_ADJUST_ANGLE
           /\ d < WALL_FOLLOW_MIN_DISTANCE =>
                \A e \in DistanceValues :
                   (e < WALL_FOLLOW_MIN_DISTANCE /\ d < e) =>
                      /\ turn > angle_adjustment(e)
                      /\ turn - angle_adjustment(e) =
                            (e - d) * WALL_FOLLOW_ADJUST_ANGLE
                      /\ angle_adjustment(e) > 0

C12_Witness ==
    /\ tick_start = WALL_FOLLOWING
    /\ \E j \in 1..Len(log) :
          /\ IsSteer(log, j)
          /\ log[j].a = 0
          /\ log[j + 1].a = 3 * WALL_FOLLOW_ADJUST_ANGLE

\* C13: no tick of update(), from any state and under any sensor readings,
\* enters raise_alarm() or emits the alarm beep.
C13_NoAlarmInTicks ==
    /\ "raise_alarm" \notin Ops(log)
    /\ "beep" \notin Ops(log)
    /\ "raise_alarm" \notin Ops(cycle)
    /\ "beep" \notin Ops(cycle)

C13_Witness ==
    /\ TickDone
    /\ tick_start = WANDER
    /\ \E j \in 1..Len(log) : IsFlame(log[j])
    /\ current_state = FIRE_DETECTION
    /\ "beep" \notin Ops(log)

\* what wall_following() did in this tick: the log from its entry up to the
\* goal sample update() takes after it
WfPolicyLog ==
    IF "detect_goal" \in Ops(log)
    THEN SubSeq(log, 2, FirstIndex(log, "detect_goal") - 1)
    ELSE SubSeq(log, 2, Len(log))

WfObstacle(l) ==
    l = <<Ev("wall_following", 0), Ev("detect_obstacle", 0), Ev("touched", 1),
          Ev("stop", 0), Ev("straight", -WALL_FOLLOW_STEP), Ev("turn", -90)>>

WfNoWall(l) ==
    /\ Len(l) = 6
    /\ l[5].op = "distance"
    /\ ~(l[5].a < WALL_FOLLOW_MIN_DISTANCE)
    /\ l = <<Ev("wall_following", 0), Ev("detect_obstacle", 0), Ev("touched", 0),
             Ev("detect_wall_on_right", 0), Ev("distance", l[5].a),
             Ev("turn", -90)>>

WfSteer(l) ==
    /\ Len(l) = 8
    /\ l[5].op = "distance"
    /\ l[5].a < WALL_FOLLOW_MIN_DISTANCE
    /\ l[6].op = "distance"
    /\ l = <<Ev("wall_following", 0), Ev("detect_obstacle", 0), Ev("touched", 0),
             Ev("detect_wall_on_right", 0), Ev("distance", l[5].a),
             Ev("distance", l[6].a),
             Ev("turn", (WALL_FOLLOW_MIN_DISTANCE - l[6].a)
                           * WALL_FOLLOW_ADJUST_ANGLE),
             Ev("straight", WALL_FOLLOW_STEP)>>

WfPcs == {"wf", "wf_back", "wf_obst_turn", "wf_wall", "wf_nowall_turn",
          "wf_steer", "wf_step", "upd_wf_goal"}

\* C14: one wall_following() does exactly one of: (a) on contact stop,
\* straight(-WALL_FOLLOW_STEP), turn(-90), without reading the side distance;
\* (b) without contact and with the side distance not below
\* WALL_FOLLOW_MIN_DISTANCE, turn(-90) only; (c) otherwise the proportional
\* turn, then straight(WALL_FOLLOW_STEP).  current_state stays WALL_FOLLOWING
\* throughout the policy.
C14_WallFollowingCases ==
    tick_start = WALL_FOLLOWING =>
      /\ pc \in WfPcs => current_state = WALL_FOLLOWING
      /\ pc \in {"upd_wf_goal", "idle"} =>
           LET l == WfPolicyLog
           IN /\ WfObstacle(l) \/ WfNoWall(l) \/ WfSteer(l)
              /\ l[3] = Ev("touched", 1) => (WfObstacle(l) /\ "distance" \notin Ops(l))
              /\ (l[3] = Ev("touched", 0) /\ ~(l[5].a < WALL_FOLLOW_MIN_DISTANCE))
                    => (WfNoWall(l) /\ "straight" \notin Ops(l))
              /\ (l[3] = Ev("touched", 0) /\ l[5].a < WALL_FOLLOW_MIN_DISTANCE)
                    => WfSteer(l)

C14_Witness ==
    /\ tick_start = WALL_FOLLOWING
    /\ pc = "upd_wf_goal"
    /\ WfNoWall(WfPolicyLog)
    /\ current_state = WALL_FOLLOWING

\* C15: approach_flame() samples the goal before every iteration; an
\* iteration without goal is a touch read followed by either
\* straight(-WALL_FOLLOW_STEP), turn(-90) (contact) or
\* straight(APPROACH_FLAME_STEP_DISTANCE) (no contact), and nothing else;
\* extinguish() is entered once, right after the first goal sample that
\* reports the goal colour; current_state is FIRE_DETECTION during the loop.
C15_ApproachLoop ==
    tick_start = FIRE_DETECTION =>
      LET l == log
          n == Len(log)
      IN /\ pc \in ApproachPcs => current_state = FIRE_DETECTION
         /\ l[2].op = "approach_flame"
         /\ n >= 3 => l[3].op = "detect_goal"
         /\ "stop" \notin Ops(l)
         /\ Count(l, "extinguish") <= 1
         /\ TickDone => Count(l, "extinguish") = 1
         /\ \A j \in 1..n :
              /\ l[j].op = "detect_goal" => (j < n /\ l[j + 1].op = "color")
              /\ l[j].op = "color" => l[j - 1].op = "detect_goal"
              /\ (l[j].op = "color" /\ ~IsGoal(l[j])) =>
                    (j < n => l[j + 1].op = "touched")
              /\ IsGoal(l[j]) =>
                    /\ j < n
                    /\ l[j + 1] = Ev("extinguish", 0)
                    /\ \A k \in (j + 1)..n :
                          l[k].op \notin {"detect_goal", "color", "touched",
                                          "straight", "turn"}
              /\ l[j].op = "extinguish" => IsGoal(l[j - 1])
              /\ l[j].op = "touched" =>
                    (l[j - 1].op = "color" /\ ~IsGoal(l[j - 1]))
              /\ l[j] = Ev("touched", 1) =>
                    /\ j + 1 <= n => l[j + 1] = Ev("straight", -WALL_FOLLOW_STEP)
                    /\ j + 2 <= n => l[j + 2] = Ev("turn", -90)
                    /\ j + 3 <= n => l[j + 3].op = "detect_goal"
              /\ l[j] = Ev("touched", 0) =>
                    /\ j + 1 <= n =>
                          l[j + 1] = Ev("straight", APPROACH_FLAME_STEP_DISTANCE)
                    /\ j + 2 <= n => l[j + 2].op = "detect_goal"
              /\ l[j].op = "straight" => l[j - 1].op = "touched"
              /\ l[j].op = "turn" => l[j - 2] = Ev("touched", 1)

C15_Witness ==
    /\ TickDone
    /\ tick_start = FIRE_DETECTION
    /\ \E j \in 1..Len(log) : log[j] = Ev("touched", 1)
    /\ \E j \in 1..Len(log) : log[j] = Ev("touched", 0)
    /\ Count(log, "extinguish") = 1

BoundedTicks == {WANDER, WALL_FOLLOWING, EXTINGUISH}

\* C16: a tick started in WANDER, WALL_FOLLOWING or EXTINGUISH issues at most
\* 8 + 3 actuator commands and ends.  A tick started in FIRE_DETECTION leaves
\* the approach loop only by a goal sample that reports the goal colour; as
\* long as it does not, the loop can go on and the state is FIRE_DETECTION;
\* when the goal is eventually sensed the tick ends, with the fan run.
C16_TickTermination ==
    /\ [](tick_start \in BoundedTicks => Len(Only(log, ActuatorOps)) <= 11)
    /\ [](tick_start \in BoundedTicks => Len(Only(log, {"turn"})) <= 9)
    /\ []((TickDone /\ tick_start = FIRE_DETECTION) => "run_time" \in Ops(log))
    /\ []((pc = "approach") =>
             (current_state = FIRE_DETECTION /\ ENABLED approach_nogoal))
    /\ [][(pc \in ApproachPcs /\ pc' \notin ApproachPcs) =>
             (/\ pc = "approach"
              /\ IsGoal(log'[Len(log') - 1])
              /\ log'[Len(log')] = Ev("extinguish", 0))]_vars
    /\ (pc # "idle") ~> (pc = "idle")
    /\ (tick_start = FIRE_DETECTION /\ pc # "idle")
          ~> (TickDone /\ tick_start = FIRE_DETECTION /\ "run_time" \in Ops(log))

C16_Witness ==
    /\ TickDone
    /\ tick_start = FIRE_DETECTION
    /\ Count(log, "color") >= 2
    /\ "run_time" \in Ops(log)

\* Without the assumption on the goal sensor: does every tick started in
\* FIRE_DETECTION end?  (It does not: the loop of approach_flame() can go on
\* for ever.)
C16_EndsWithoutAssumption ==
    (tick_start = FIRE_DETECTION /\ pc # "idle") ~> (pc = "idle")

\* the scan of this tick found no flame
ScanFailed == \A j \in 1..Len(log) : ~IsFlame(log[j])

\* the log of a WANDER tick up to the entry of wander()
BeforeWander == SubSeq(log, 1, FirstIndex(log, "wander") - 1)

\* C17 as stated: a tick that starts in WANDER and whose scan fails runs
\* wander() after exactly 8 turns of 45 degrees and ends in WANDER.
C17_Original ==
    (TickDone /\ tick_start = WANDER /\ ScanFailed) =>
      /\ Count(log, "wander") = 1
      /\ Count(BeforeWander, "ambient") = 8
      /\ Count(BeforeWander, "turn") = 8
      /\ \A j \in 1..Len(BeforeWander) :
            BeforeWander[j].op = "turn" => BeforeWander[j].a = 45
      /\ current_state = WANDER

\* C17 amended: a tick that starts in WANDER and whose scan fails runs
\* wander() after exactly 8 turns of 45 degrees; it ends in WANDER when the
\* touch sensor reports no contact and in WALL_FOLLOWING when it reports
\* contact.
C17_FailedScanRunsWander ==
    (TickDone /\ tick_start = WANDER /\ ScanFailed) =>
      /\ Count(log, "wander") = 1
      /\ Count(BeforeWander, "ambient") = 8
      /\ Count(BeforeWander, "turn") = 8
      /\ \A j \in 1..Len(BeforeWander) :
            BeforeWander[j].op = "turn" => BeforeWander[j].a = 45
      /\ Count(log, "touched") = 1
      /\ Ev("touched", 0) \in {log[j] : j \in 1..Len(log)} =>
            current_state = WANDER
      /\ Ev("touched", 1) \in {log[j] : j \in 1..Len(log)} =>
            current_state = WALL_FOLLOWING

C17_Witness ==
    /\ TickDone
    /\ tick_start = WANDER
    /\ ScanFailed
    /\ Count(log, "turn") = 8
    /\ log[Len(log)] = Ev("straight", WANDER_DISTANCE)
    /\ current_state = WANDER

\* C18 as stated: in the steering branch the reading used for the error is
\* the reading that passed the wall-on-right test, so it is below
\* WALL_FOLLOW_MIN_DISTANCE and the commanded turn is strictly positive.
C18_SteerUsesTestedReading ==
    tick_start = WALL_FOLLOWING =>
      \A j \in 1..Len(log) : IsSteer(log, j) =>
         /\ log[j].a = log[j - 1].a
         /\ log[j].a < WALL_FOLLOW_MIN_DISTANCE
         /\ log[j + 1].a > 0

\* where the ticks of the cycle start, and where the fan runs
TickStarts(c) == {j \in 1..Len(c) : c[j] = Ev("print", P_STATE)}
FanRuns(c) == {j \in 1..Len(c) : c[j].op = "run_time"}

\* C19: a firefighting cycle (the tick that starts in FIRE_DETECTION and the
\* ticks after it until current_state is WANDER again) is two ticks and runs
\* the fan exactly twice, once in approach_flame() and once in the tick that
\* starts in EXTINGUISH; no sensor is read and no drive command is issued
\* between the two runs, and each run comes after a goal sample, in the same
\* cycle, that reported the goal colour.
C19_FanRunsTwicePerCycle ==
    /\ (TickDone /\ tick_start = FIRE_DETECTION) =>
          /\ current_state = EXTINGUISH
          /\ cycle = log
          /\ Cardinality(FanRuns(cycle)) = 1
    /\ tick_start = EXTINGUISH =>
          /\ Len(cycle) > Len(log)
          /\ cycle[2].op = "approach_flame"
          /\ SubSeq(cycle, Len(cycle) - Len(log) + 1, Len(cycle)) = log
    /\ tick_start \in {FIRE_DETECTION, EXTINGUISH} =>
          /\ Cardinality(FanRuns(cycle)) <= 2
          /\ \A f \in FanRuns(cycle) : \E k \in 1..(f - 1) : IsGoal(cycle[k])
    /\ (TickDone /\ tick_start \in {FIRE_DETECTION, EXTINGUISH}
                 /\ current_state = WANDER) =>
          /\ tick_start = EXTINGUISH
          /\ Cardinality(TickStarts(cycle)) = 2
          /\ Cardinality(FanRuns(cycle)) = 2
          /\ \E f1, f2 \in FanRuns(cycle), t \in TickStarts(cycle) :
               /\ f1 < t
               /\ t < f2
               /\ cycle[t + 1].op = "extinguish"
               /\ \A k \in (f1 + 1)..(f2 - 1) :
                     cycle[k].op \notin SensorOps \cup DriveOps

C19_Witness ==
    /\ TickDone
    /\ tick_start = EXTINGUISH
    /\ current_state = WANDER
    /\ Cardinality(FanRuns(cycle)) = 2
    /\ cycle[2].op = "approach_flame"

\* C20: current_state leaves WALL_FOLLOWING only for FIRE_DETECTION, by the
\* goal sample update() takes after wall_following(); it becomes WANDER (from
\* another state) only at the end of the tick that starts in EXTINGUISH,
\* after a cycle that began with approach_flame() and ran the fan twice; a
\* tick that starts in WALL_FOLLOWING performs no flame scan.
C20_NoWayBackToWander ==
    [][/\ (current_state = WALL_FOLLOWING /\ current_state' # WALL_FOLLOWING) =>
             /\ current_state' = FIRE_DETECTION
             /\ tick_start = WALL_FOLLOWING
             /\ pc = "upd_wf_goal"
             /\ pc' = "idle"
             /\ IsGoal(Only(log', {"color"})[1])
       /\ (current_state # WANDER /\ current_state' = WANDER) =>
             /\ tick_start = EXTINGUISH
             /\ current_state = COMPLETE
             /\ pc' = "idle"
             /\ cycle'[2].op = "approach_flame"
             /\ Cardinality(FanRuns(cycle')) = 2
       /\ tick_start' = WALL_FOLLOWING =>
             Ops(log') \cap {"initial_scan_for_flame", "detect_flame",
                             "ambient"} = {}
       /\ (pc' = "idle" /\ tick_start' = WALL_FOLLOWING
                        /\ ~IsGoal(Only(log', {"color"})[1])) =>
             current_state' = WALL_FOLLOWING
    ]_vars

C20_Witness ==
    /\ TickDone
    /\ tick_start = WALL_FOLLOWING
    /\ current_state = WALL_FOLLOWING
    /\ Count(log, "color") = 1
    /\ ~IsGoal(Only(log, {"color"})[1])

\* Does the robot ever stop wall-following if nothing is assumed about the
\* goal sensor?  (It need not: with no goal sample it wall-follows for ever.)
C20_LeavesWallFollowing ==
    (current_state = WALL_FOLLOWING) ~> (current_state # WALL_FOLLOWING)
====
